---- MODULE Spec2Model ----
(***************************************************************************)
(* A model of voice_prompt: the AudioRecorder capture state machine        *)
(* (recorder.py), the orchestrator that drives it from hotkey threads      *)
(* (main.py) and the capture driver that calls _audio_callback.            *)
(***************************************************************************)
EXTENDS Integers, Sequences, FiniteSets, Bags, TLC

(***************************************************************************)
(* Arbitrary-precision naturals, little-endian sequences of limbs.  They   *)
(* carry the 53-bit significands of Python floats, which do not fit the    *)
(* model checker's integers.                                               *)
(***************************************************************************)
Limb == 2^15

RECURSIVE BigOfInt(_)
BigOfInt(n) == IF n = 0 THEN <<>> ELSE <<n % Limb>> \o BigOfInt(n \div Limb)

RECURSIVE BigTrim(_)
BigTrim(a) ==
    IF a = <<>> THEN <<>>
    ELSE IF a[Len(a)] = 0 THEN BigTrim(SubSeq(a, 1, Len(a) - 1))
    ELSE a

RECURSIVE BigToInt(_)
BigToInt(a) == IF a = <<>> THEN 0 ELSE Head(a) + Limb * BigToInt(Tail(a))

\* a * m + carry, for 0 <= m < Limb
RECURSIVE BigMulSmall(_, _, _)
BigMulSmall(a, m, carry) ==
    IF a = <<>> THEN BigOfInt(carry)
    ELSE LET v == Head(a) * m + carry
         IN  <<v % Limb>> \o BigMulSmall(Tail(a), m, v \div Limb)

RECURSIVE Pow2(_)
Pow2(k) == IF k = 0 THEN 1 ELSE 2 * Pow2(k - 1)

\* a * 2^k
RECURSIVE BigShl(_, _)
BigShl(a, k) ==
    IF a = <<>> THEN <<>>
    ELSE IF k >= 15 THEN <<0>> \o BigShl(a, k - 15)
    ELSE BigTrim(BigMulSmall(a, Pow2(k), 0))

\* floor(a / 2^k)
RECURSIVE BigDivSmallRec(_, _, _)
BigDivSmallRec(a, d, rem) ==
    \* a is consumed from its most significant limb; the quotient is little-endian
    IF a = <<>> THEN <<>>
    ELSE LET v == rem * Limb + a[Len(a)]
         IN  BigDivSmallRec(SubSeq(a, 1, Len(a) - 1), d, v % d) \o <<v \div d>>

RECURSIVE BigShr(_, _)
BigShr(a, k) ==
    IF a = <<>> THEN <<>>
    ELSE IF k >= 15 THEN BigShr(Tail(a), k - 15)
    ELSE BigTrim(BigDivSmallRec(a, Pow2(k), 0))

\* -1, 0, 1 as a < b, a = b, a > b (both trimmed)
RECURSIVE BigCmp(_, _)
BigCmp(a, b) ==
    IF Len(a) # Len(b) THEN (IF Len(a) < Len(b) THEN -1 ELSE 1)
    ELSE IF a = <<>> THEN 0
    ELSE IF a[Len(a)] # b[Len(b)] THEN (IF a[Len(a)] < b[Len(b)] THEN -1 ELSE 1)
    ELSE BigCmp(SubSeq(a, 1, Len(a) - 1), SubSeq(b, 1, Len(b) - 1))

RECURSIVE BigAddRec(_, _, _)
BigAddRec(a, b, carry) ==
    IF a = <<>> /\ b = <<>> THEN BigOfInt(carry)
    ELSE LET x == IF a = <<>> THEN 0 ELSE Head(a)
             y == IF b = <<>> THEN 0 ELSE Head(b)
             v == x + y + carry
         IN  <<v % Limb>> \o BigAddRec(IF a = <<>> THEN a ELSE Tail(a),
                                       IF b = <<>> THEN b ELSE Tail(b),
                                       v \div Limb)

BigAdd(a, b) == BigTrim(BigAddRec(a, b, 0))

\* a - b, for a >= b
RECURSIVE BigSubRec(_, _, _)
BigSubRec(a, b, borrow) ==
    IF a = <<>> THEN <<>>
    ELSE LET y == IF b = <<>> THEN 0 ELSE Head(b)
             v == Head(a) - y - borrow
         IN  <<v % Limb>> \o BigSubRec(Tail(a), IF b = <<>> THEN b ELSE Tail(b),
                                       IF v < 0 THEN 1 ELSE 0)

BigSub(a, b) == BigTrim(BigSubRec(a, b, 0))

RECURSIVE IntBitLen(_)
IntBitLen(n) == IF n = 0 THEN 0 ELSE 1 + IntBitLen(n \div 2)

BigBitLen(a) == IF a = <<>> THEN 0 ELSE 15 * (Len(a) - 1) + IntBitLen(a[Len(a)])

(***************************************************************************)
(* Python floats (IEEE-754 binary64), non-negative and below 2^52: the     *)
(* value m / 2^t with m = 0 or 2^52 <= m < 2^53 and t >= 0.  Division      *)
(* rounds to nearest, ties to even, as the hardware does; int() truncates. *)
(***************************************************************************)
FloatZero == [m |-> <<>>, t |-> 0]

\* one step of restoring division: quotient bit i of st.r / den
DivStep(st, den, i) ==
    LET c == BigShl(den, i)
    IN  IF BigCmp(st.r, c) >= 0
        THEN [q |-> BigAdd(st.q, BigShl(<<1>>, i)), r |-> BigSub(st.r, c)]
        ELSE st

\* the steps for bits hi down to lo, in two halves; a zero remainder ends the
\* division early (the remaining quotient bits are 0)
RECURSIVE DivBits(_, _, _, _)
DivBits(st, den, hi, lo) ==
    IF hi = lo THEN DivStep(st, den, hi)
    ELSE LET mid  == (hi + lo + 1) \div 2
             left == DivBits(st, den, hi, mid)
         IN  IF left.r = <<>> THEN left ELSE DivBits(left, den, mid - 1, lo)

\* the float nearest to n / d, for naturals n >= 0 and d > 0
FloatOfQuotient(n, d) ==
    IF n = <<>> THEN FloatZero
    ELSE LET t0  == 52 - (BigBitLen(n) - BigBitLen(d))
             t   == IF BigCmp(BigShl(n, t0), BigShl(d, 52)) >= 0 THEN t0 ELSE t0 + 1
             qr  == DivBits([q |-> <<>>, r |-> BigShl(n, t)], d, 52, 0)
             c   == BigCmp(BigShl(qr.r, 1), d)
             odd == qr.q # <<>> /\ qr.q[1] % 2 = 1
             m   == IF c > 0 \/ (c = 0 /\ odd) THEN BigAdd(qr.q, <<1>>) ELSE qr.q
         IN  IF BigBitLen(m) = 54 THEN [m |-> BigShr(m, 1), t |-> t - 1]
             ELSE [m |-> m, t |-> t]

\* a float literal p/q (0.3 is FloatOf(3, 10)), or float(p) for q = 1
FloatOf(p, q) == FloatOfQuotient(BigOfInt(p), BigOfInt(q))

\* a / b
FloatDiv(a, b) == FloatOfQuotient(BigShl(a.m, b.t), BigShl(b.m, a.t))

\* a < b
FloatLess(a, b) == BigCmp(BigShl(a.m, b.t), BigShl(b.m, a.t)) < 0

\* int(a)
FloatToInt(a) == BigToInt(BigShr(a.m, a.t))

\* int(duration / 0.1), the duration given as the decimal d[1]/d[2]
ChunksIn(d) == FloatToInt(FloatDiv(FloatOf(d[1], d[2]), FloatOf(1, 10)))

(***************************************************************************)
(* Chunk classification: np.abs(indata).mean() / 32768.0 < threshold.      *)
(* indata is an int16 array, so np.abs wraps at -32768; mean() is taken in *)
(* float64.                                                                *)
(***************************************************************************)
FullScale == 32768

AbsInt16(x) == IF x = -FullScale THEN -FullScale ELSE IF x < 0 THEN -x ELSE x

RECURSIVE SumAbs(_)
SumAbs(c) == IF c = <<>> THEN 0 ELSE AbsInt16(Head(c)) + SumAbs(Tail(c))

\* is_silent of a chunk c under a threshold given as the decimal thr[1]/thr[2]
IsSilent(c, thr) ==
    LET total == SumAbs(c)
    IN  IF total < 0 THEN TRUE      \* a negative amplitude is below any threshold > 0
        ELSE FloatLess(FloatDiv(FloatDiv(FloatOf(total, 1), FloatOf(Len(c), 1)),
                                FloatOf(FullScale, 1)),
                       FloatOf(thr[1], thr[2]))

(***************************************************************************)
(* Bounds of the model.                                                    *)
(***************************************************************************)
MaxEvents == 5      \* hotkey activations and driver callbacks in one behaviour of Spec
SeqEvents == 7      \* the same for SeqSpec, where every hotkey callback and every driver
                    \* callback runs to its end before the next begins
FaultEvents == 4    \* the same for FaultSpec, where the stream and the WAV file can fail
ApiEvents == 6      \* calls of the recorder and driver callbacks in one behaviour of ApiSpec
DriverEvents == 4   \* hotkey activations and driver callbacks in one behaviour of DriverSpec
FinishEvents == 4   \* the same for FinishSpec, where the transcription can fail
KeyEvents == 7      \* key presses, key releases and driver callbacks in one behaviour of KeySpec
MaxProcs == 3       \* `start` commands in one behaviour of LockSpec

\* every start() may open a stream
Streams == 1 .. (IF MaxEvents > SeqEvents THEN MaxEvents ELSE SeqEvents)

\* the blocks the driver delivers: blocksize samples of dtype int16
Silence == <<0, 0>>
Speech  == <<5000, 5000>>
Clipped == <<-FullScale, -FullScale>>
Chunks  == {Silence, Speech, Clipped}

\* what a driver buffer holds once its callback has returned: the driver reuses it
Reused == <<-1, -1>>

\* constructor parameters: decimals as <<numerator, denominator>>
Config(thr, sil, grace, max) ==
    [silence_threshold |-> thr, silence_duration |-> sil, grace_period |-> grace,
     max_duration |-> max]

\* the recorder of Spec stops on its first chunk when that is silent, else on its second
Configs == { Config(<<1, 100>>, <<1, 10>>, <<1, 10>>, <<2, 10>>) }

\* the recorders of SeqSpec: those of the test suite (silence 0.3 with grace 10, grace
\* 0.5 and 5.0 under the defaults), one whose max duration ends before its grace
\* period, and one with the threshold 0
SeqConfigs ==
    { Config(<<1, 100>>, <<3, 10>>, <<10, 1>>, <<120, 1>>),
      Config(<<1, 100>>, <<2, 1>>, <<5, 10>>, <<120, 1>>),
      Config(<<1, 100>>, <<2, 1>>, <<5, 1>>, <<120, 1>>),
      Config(<<1, 100>>, <<2, 10>>, <<5, 10>>, <<2, 10>>),
      Config(<<0, 1>>, <<1, 10>>, <<2, 10>>, <<4, 10>>) }

Durations ==
    UNION {{c.silence_duration, c.grace_period, c.max_duration} : c \in Configs \cup SeqConfigs}
Thresholds == {c.silence_threshold : c \in Configs \cup SeqConfigs}

\* the two conversions on the model's inputs, evaluated once
ChunkCount == [d \in Durations |-> ChunksIn(d)]
Classified == [c \in Chunks, thr \in Thresholds |-> IsSilent(c, thr)]

VARIABLES
    limit,                  \* the bounds of the behaviour: its events, blocks and texts
    cfg,                    \* AudioRecorder.__init__ parameters
    recording,              \* _recording
    speech_detected,        \* _speech_detected
    frames,                 \* _frames
    silent_chunks,          \* _silent_chunks
    max_chunks,             \* _max_chunks
    silence_chunks_needed,  \* _silence_chunks_needed
    grace_chunks,           \* _grace_chunks
    stream,                 \* _stream: a stream id, 0 while the attribute is unset
    lock,                   \* _lock: <<>> when free, else its holder
    streams,                \* sd.InputStream objects: "none", "opened", "active", "closed"
    buf,                    \* each stream's driver buffer (indata)
    cb,                     \* each stream's callback thread: "idle", "waiting", "locked"
    th,                     \* the bag of application threads (hotkey callbacks, on_auto_stop)
    spawned,                \* on_auto_stop threads started and not yet running
    log,                    \* the last message logged
    events,                 \* hotkey activations and driver callbacks so far
    session,                \* start() calls that began a recording
    ingested,               \* chunks accepted by _audio_callback for the current frames
    dispatched,             \* on_auto_stop threads started in this session
    payloads,               \* the audio of the files stop() returned in this session
    cancelled,              \* cancel() has returned and no start() has begun a session since
    system,                 \* config.system
    tmp_wavs,               \* the WAV files in temp_dir
    failed_audio,           \* the WAV files in failed_audio_dir
    output,                 \* the texts passed to outputter.output
    pressed,                \* HotkeyManager._pressed
    lock_file,              \* LOCK_FILE: 0 while absent, else the pid written in it
    procs                   \* the position of every `start` process in _cmd_start

vars == <<limit, cfg, recording, speech_detected, frames, silent_chunks, max_chunks,
          silence_chunks_needed, grace_chunks, stream, lock, streams, buf, cb, th,
          spawned, log, events, session, ingested, dispatched, payloads,
          cancelled, system, tmp_wavs, failed_audio, output, pressed, lock_file,
          procs>>

\* the state outside the recorder and its callbacks
hostVars == <<pressed, lock_file, procs>>

recorderVars == <<recording, speech_detected, frames, silent_chunks, max_chunks,
                  silence_chunks_needed, grace_chunks, stream, lock>>

\* the keys the listener reports, named as pynput names them
Keys == {"ctrl_l", "ctrl_r", "shift", "q", "esc"}

\* DEFAULTS["hotkeys"], each parsed by _parse_hotkey
Hotkeys == [record |-> {"ctrl_l", "shift", "q"}, cancel |-> {"esc"}]

\* the process ids of the `start` commands
Pids == 1 .. MaxProcs

\* what transcriber.transcribe returns: a text, or no text
Hello == "hello"
Texts == {Hello, ""}

\* DEFAULT_CONFIG["system"]
Defaults == [save_failed_audio |-> TRUE]

Constructed ==
    /\ recording = FALSE
    /\ speech_detected = FALSE
    /\ frames = <<>>
    /\ silent_chunks = 0
    /\ max_chunks = 0
    /\ silence_chunks_needed = 0
    /\ grace_chunks = 0
    /\ stream = 0
    /\ lock = <<>>
    /\ streams = [s \in Streams |-> "none"]
    /\ buf = [s \in Streams |-> Reused]
    /\ cb = [s \in Streams |-> "idle"]
    /\ th = EmptyBag
    /\ spawned = 0
    /\ log = ""
    /\ events = 0
    /\ session = 0
    /\ ingested = <<>>
    /\ dispatched = 0
    /\ payloads = <<>>
    /\ cancelled = FALSE
    /\ tmp_wavs = 0
    /\ failed_audio = 0
    /\ output = <<>>
    /\ pressed = {}
    /\ lock_file = 0
    /\ procs = [p \in Pids |-> [pc |-> "unborn", old_pid |-> 0]]

Init ==
    /\ limit = [events |-> MaxEvents, chunks |-> {Silence, Speech}, texts |-> {Hello}]
    /\ cfg \in Configs
    /\ system = Defaults
    /\ Constructed

SeqInit ==
    /\ limit = [events |-> SeqEvents, chunks |-> Chunks, texts |-> {Hello}]
    /\ cfg \in SeqConfigs
    /\ system = Defaults
    /\ Constructed

(***************************************************************************)
(* Helpers.                                                                *)
(***************************************************************************)
\* A thread is its callback (op) and its position in it (pc); threads have no other
\* identity.  mark: no start() has begun a session since the thread entered cancel(),
\* or since it entered stop() on a session that had auto-stopped and handed out its file
Thread(op, pc) == [op |-> op, pc |-> pc, mark |-> FALSE]

StartPcs  == {"start_check", "start_reset", "start_detect", "start_open"}
StopPcs   == {"stop_check", "stop_flag", "stop_stream", "stop_drain", "transcribe"}
CancelPcs == {"cancel_flag", "cancel_stream", "cancel_clear"}
FinishPcs == {"except", "finally"}

\* what a thread can be: _on_record_toggle runs start() or _finish_recording,
\* on_auto_stop runs _finish_recording, _on_cancel runs cancel()
Threads ==
    [op : {"record"}, pc : StartPcs \cup StopPcs \cup FinishPcs, mark : BOOLEAN] \cup
    [op : {"auto"}, pc : StopPcs \cup FinishPcs, mark : BOOLEAN] \cup
    [op : {"cancel"}, pc : CancelPcs, mark : BOOLEAN]

\* the threads there can be at each pc
ThreadsAt ==
    [pc \in StartPcs \cup StopPcs \cup CancelPcs \cup FinishPcs |-> {t \in Threads : t.pc = pc}]

\* thread t runs and is at pc
AtPc(t, pc) == t.pc = pc /\ t \in DOMAIN th

Become(t, u) == th' = (th (-) SetToBag({t})) (+) SetToBag({u})
Run(op, pc) == th' = th (+) SetToBag({Thread(op, pc)})
Goto(t, pc) == Become(t, [t EXCEPT !.pc = pc])
Return(t) == th' = th (-) SetToBag({t})

\* the threads of bag b at pc, marked or not
At(b, pc, mark) ==
    LET here == {t \in BagToSet(b) : t.pc = pc /\ t.mark = mark}
    IN  BagCardinality([t \in here |-> b[t]])

\* b with every mark cleared
Unmarked(b) ==
    LET clear(t) == [t EXCEPT !.mark = FALSE]
    IN  [u \in {clear(t) : t \in BagToSet(b)} |->
            CopiesIn(u, b) + CopiesIn([u EXCEPT !.mark = TRUE], b)]

\* indata.copy(): the frame owns its samples
ArrayCopy(s) == [own |-> TRUE, buffer |-> s, data |-> buf[s]]

\* the samples a frame holds now
Samples(f) == IF f.own THEN f.data ELSE buf[f.buffer]

\* np.concatenate(self._frames, axis=0)
RECURSIVE Concatenate(_)
Concatenate(fs) == IF fs = <<>> THEN <<>> ELSE Samples(Head(fs)) \o Concatenate(Tail(fs))

\* the accepted chunks not yet appended to _frames (their callbacks wait for the lock)
Pending == SelectSeq(ingested, LAMBDA e : ~e.appended)

\* the chunks appended to _frames, in the order their callbacks were invoked
RECURSIVE ChunksOf(_)
ChunksOf(es) ==
    IF es = <<>> THEN <<>>
    ELSE (IF Head(es).appended THEN Head(es).chunk ELSE <<>>) \o ChunksOf(Tail(es))

MarkAppended(s) ==
    [i \in 1 .. Len(ingested) |->
        IF ingested[i].stream = s /\ ~ingested[i].appended
        THEN [ingested[i] EXCEPT !.appended = TRUE] ELSE ingested[i]]

\* the guard of the silence logic dropped
SilenceAlwaysEnabled == TRUE

\* if self.silence_threshold > 0
SilenceEnabled == cfg.silence_threshold[1] > 0

\* the grace comparison made strict: one chunk late
GraceStopLate == ~speech_detected' /\ Len(frames) > grace_chunks

\* the max-duration check placed inside the block of the silence detection
MaxStopOnlyWhenEnabled == SilenceEnabled /\ Len(frames) >= max_chunks

\* the silence comparison made strict: one chunk late
SilenceStopLate == speech_detected' /\ silent_chunks' > silence_chunks_needed

\* the three automatic stop conditions of _audio_callback
SilenceStop == speech_detected' /\ silent_chunks' >= silence_chunks_needed
GraceStop == ~speech_detected' /\ Len(frames) >= grace_chunks
MaxStop == Len(frames) >= max_chunks

(***************************************************************************)
(* The capture driver: one callback thread per started stream.             *)
(***************************************************************************)
\* the driver fills its buffer and calls _audio_callback, which returns at once
\* when the recorder is not recording
Deliver(s, c) ==
    /\ streams[s] = "active"
    /\ cb[s] = "idle"
    /\ events < limit.events
    /\ c \in limit.chunks
    /\ events' = events + 1
    /\ IF recording
       THEN /\ buf' = [buf EXCEPT ![s] = c]
            /\ cb' = [cb EXCEPT ![s] = "waiting"]
            /\ ingested' = Append(ingested, [stream |-> s, chunk |-> c, appended |-> FALSE])
       ELSE UNCHANGED <<buf, cb, ingested>>
    /\ UNCHANGED <<limit, cfg, hostVars, system, tmp_wavs, failed_audio, output,
                   recorderVars, streams, th, spawned, log, session,
                   dispatched, payloads, cancelled>>

\* with self._lock: self._frames.append(indata.copy())
CallbackAppend(s) ==
    /\ cb[s] = "waiting"
    /\ lock = <<>>
    /\ lock' = <<"cb", s>>
    /\ frames' = Append(frames, ArrayCopy(s))
    /\ ingested' = MarkAppended(s)
    /\ cb' = [cb EXCEPT ![s] = "locked"]
    /\ UNCHANGED <<limit, cfg, hostVars, system, tmp_wavs, failed_audio, output,
                   recording, speech_detected, silent_chunks, max_chunks,
                   silence_chunks_needed, grace_chunks, stream, streams, buf, th,
                   spawned, log, events, session, dispatched, payloads,
                   cancelled>>

\* self._recording = False; threading.Thread(target=self.on_auto_stop).start()
AutoStop(msg) ==
    /\ recording' = FALSE
    /\ log' = msg
    /\ spawned' = spawned + 1
    /\ dispatched' = dispatched + 1

\* on_auto_stop called by _audio_callback itself, inside the with block: its
\* stop() waits in stream.stop() for the callback that is calling it
CallbackBodyInline(s) ==
    /\ cb[s] = "locked"
    /\ IF SilenceEnabled
       THEN IF ~Classified[buf[s], cfg.silence_threshold]
            THEN speech_detected' = TRUE /\ silent_chunks' = 0
            ELSE silent_chunks' = silent_chunks + 1 /\ UNCHANGED speech_detected
       ELSE UNCHANGED <<speech_detected, silent_chunks>>
    /\ IF (SilenceEnabled /\ (SilenceStop \/ GraceStop)) \/ MaxStop
       THEN /\ recording' = FALSE
            /\ dispatched' = dispatched + 1
            /\ cb' = [cb EXCEPT ![s] = "in on_auto_stop"]
            /\ UNCHANGED <<lock, buf>>
       ELSE /\ lock' = <<>>
            /\ cb' = [cb EXCEPT ![s] = "idle"]
            /\ buf' = [buf EXCEPT ![s] = Reused]
            /\ UNCHANGED <<recording, dispatched>>
    /\ UNCHANGED <<limit, cfg, hostVars, system, tmp_wavs, failed_audio, output,
                   frames, max_chunks, silence_chunks_needed, grace_chunks,
                   stream, streams, th, events, session, ingested, payloads,
                   cancelled, spawned, log>>

\* _audio_callback without the two return statements: every stop condition
\* that is true starts its own on_auto_stop thread
CallbackBodyNoReturn(s) ==
    LET fired == (IF SilenceEnabled /\ SilenceStop THEN 1 ELSE 0)
                 + (IF SilenceEnabled /\ GraceStop THEN 1 ELSE 0)
                 + (IF MaxStop THEN 1 ELSE 0)
    IN  /\ cb[s] = "locked"
        /\ IF SilenceEnabled
           THEN IF ~Classified[buf[s], cfg.silence_threshold]
                THEN speech_detected' = TRUE /\ silent_chunks' = 0
                ELSE silent_chunks' = silent_chunks + 1 /\ UNCHANGED speech_detected
           ELSE UNCHANGED <<speech_detected, silent_chunks>>
        /\ IF fired > 0
           THEN /\ recording' = FALSE
                /\ log' = IF MaxStop THEN "Max recording duration reached"
                          ELSE IF GraceStop THEN "Grace period expired, no speech detected"
                          ELSE "Silence after speech, auto-stopping"
                /\ spawned' = spawned + fired
                /\ dispatched' = dispatched + fired
           ELSE UNCHANGED <<recording, spawned, dispatched, log>>
        /\ lock' = <<>>
        /\ cb' = [cb EXCEPT ![s] = "idle"]
        /\ buf' = [buf EXCEPT ![s] = Reused]
        /\ UNCHANGED <<limit, cfg, hostVars, system, tmp_wavs, failed_audio, output,
                   frames, max_chunks, silence_chunks_needed,
                       grace_chunks, stream, streams, th, events, session, ingested,
                       payloads, cancelled>>

\* the rest of the with block: classification and the stop conditions
CallbackBody(s) ==
    /\ cb[s] = "locked"
    /\ IF SilenceEnabled
       THEN IF ~Classified[buf[s], cfg.silence_threshold]
            THEN speech_detected' = TRUE /\ silent_chunks' = 0
            ELSE silent_chunks' = silent_chunks + 1 /\ UNCHANGED speech_detected
       ELSE UNCHANGED <<speech_detected, silent_chunks>>
    /\ IF SilenceEnabled /\ SilenceStop
         THEN AutoStop("Silence after speech, auto-stopping")
       ELSE IF SilenceEnabled /\ GraceStop
         THEN AutoStop("Grace period expired, no speech detected")
       ELSE IF MaxStop
         THEN AutoStop("Max recording duration reached")
       ELSE IF SilenceEnabled /\ ~speech_detected /\ speech_detected'
         THEN log' = "Speech detected" /\ UNCHANGED <<recording, spawned, dispatched>>
       ELSE UNCHANGED <<recording, spawned, dispatched, log>>
    /\ lock' = <<>>
    /\ cb' = [cb EXCEPT ![s] = "idle"]
    /\ buf' = [buf EXCEPT ![s] = Reused]
    /\ UNCHANGED <<limit, cfg, hostVars, system, tmp_wavs, failed_audio, output,
                   frames, max_chunks, silence_chunks_needed, grace_chunks,
                   stream, streams, th, events, session, ingested, payloads,
                   cancelled>>

(***************************************************************************)
(* The hotkey listener starts every callback on a thread of its own; a     *)
(* thread's first step is the first statement of its callback.             *)
(***************************************************************************)
\* _on_press calling the callback itself: the listener takes the next key
\* when the callback has returned
RecordHotkeyInline ==
    /\ \A t \in BagToSet(th) : t.op = "auto"
    /\ events < limit.events
    /\ events' = events + 1
    /\ Run("record", IF recording THEN "stop_check" ELSE "start_check")
    /\ UNCHANGED <<limit, cfg, hostVars, system, tmp_wavs, failed_audio, output,
                   recorderVars, streams, buf, cb, spawned, log,
                   session, ingested, dispatched, payloads, cancelled>>

\* _on_record_toggle: if self.recorder.is_recording
RecordHotkey ==
    /\ events < limit.events
    /\ events' = events + 1
    /\ Run("record", IF recording THEN "stop_check" ELSE "start_check")
    /\ UNCHANGED <<limit, cfg, hostVars, system, tmp_wavs, failed_audio, output,
                   recorderVars, streams, buf, cb, spawned, log,
                   session, ingested, dispatched, payloads, cancelled>>

\* _on_cancel: if self.recorder.is_recording
CancelHotkey ==
    /\ events < limit.events
    /\ events' = events + 1
    /\ IF recording THEN Run("cancel", "cancel_flag") ELSE UNCHANGED th
    /\ UNCHANGED <<limit, cfg, hostVars, system, tmp_wavs, failed_audio, output,
                   recorderVars, streams, buf, cb, spawned, log,
                   session, ingested, dispatched, payloads, cancelled>>

\* a started on_auto_stop thread begins to run _finish_recording
AutoStopThread ==
    /\ spawned > 0
    /\ spawned' = spawned - 1
    /\ Run("auto", "stop_check")
    /\ UNCHANGED <<limit, cfg, hostVars, system, tmp_wavs, failed_audio, output,
                   recorderVars, streams, buf, cb, log, events,
                   session, ingested, dispatched, payloads, cancelled>>

(***************************************************************************)
(* AudioRecorder.start                                                     *)
(***************************************************************************)
\* start() without its first check
StartUnchecked(t) ==
    /\ AtPc(t, "start_check")
    /\ Goto(t, "start_reset")
    /\ UNCHANGED <<limit, cfg, hostVars, system, tmp_wavs, failed_audio, output,
                   recorderVars, streams, buf, cb, spawned, log, events,
                   session, ingested, dispatched, payloads, cancelled>>

\* if self._recording: return
StartCheck(t) ==
    /\ AtPc(t, "start_check")
    /\ IF recording
       THEN log' = "Already recording" /\ Return(t)
       ELSE Goto(t, "start_reset") /\ UNCHANGED log
    /\ UNCHANGED <<limit, cfg, hostVars, system, tmp_wavs, failed_audio, output,
                   recorderVars, streams, buf, cb, spawned, events,
                   session, ingested, dispatched, payloads, cancelled>>

\* start() without self._frames = []: the recording that ended is taken up again
StartKeepsFrames(t) ==
    /\ AtPc(t, "start_reset")
    /\ recording' = TRUE
    /\ session' = session + 1
    /\ dispatched' = 0
    /\ payloads' = <<>>
    /\ cancelled' = FALSE
    /\ th' = Unmarked((th (-) SetToBag({t})) (+) SetToBag({[t EXCEPT !.pc = "start_detect"]}))
    /\ UNCHANGED <<limit, cfg, hostVars, system, tmp_wavs, failed_audio, output,
                   frames, speech_detected, silent_chunks, max_chunks,
                   silence_chunks_needed, grace_chunks, stream, lock, streams, buf, cb,
                   spawned, log, events, ingested>>

\* self._frames = []; self._recording = True: a new recording begins
StartReset(t) ==
    /\ AtPc(t, "start_reset")
    /\ frames' = <<>>
    /\ recording' = TRUE
    /\ session' = session + 1
    /\ ingested' = Pending
    /\ dispatched' = 0
    /\ payloads' = <<>>
    /\ cancelled' = FALSE
    /\ th' = Unmarked((th (-) SetToBag({t})) (+) SetToBag({[t EXCEPT !.pc = "start_detect"]}))
    /\ UNCHANGED <<limit, cfg, hostVars, system, tmp_wavs, failed_audio, output,
                   speech_detected, silent_chunks, max_chunks,
                   silence_chunks_needed, grace_chunks, stream, lock, streams, buf, cb,
                   spawned, log, events>>

\* the silence detection of the new recording and its chunk thresholds
StartDetect(t) ==
    /\ AtPc(t, "start_detect")
    /\ speech_detected' = FALSE
    /\ silent_chunks' = 0
    /\ max_chunks' = ChunkCount[cfg.max_duration]
    /\ silence_chunks_needed' = ChunkCount[cfg.silence_duration]
    /\ grace_chunks' = ChunkCount[cfg.grace_period]
    /\ log' = "Recording started"
    /\ Goto(t, "start_open")
    /\ UNCHANGED <<limit, cfg, hostVars, system, tmp_wavs, failed_audio, output,
                   recording, frames, stream, lock, streams, buf, cb,
                   spawned, events, session, ingested, dispatched, payloads, cancelled>>

\* self._stream = sd.InputStream(...); self._stream.start()
StartOpen(t) ==
    /\ AtPc(t, "start_open")
    /\ LET s == CHOOSE x \in Streams : streams[x] = "none" /\
                    \A y \in Streams : streams[y] = "none" => x <= y
       IN  /\ streams' = [streams EXCEPT ![s] = "active"]
           /\ stream' = s
    /\ Return(t)
    /\ UNCHANGED <<limit, cfg, hostVars, system, tmp_wavs, failed_audio, output,
                   recording, speech_detected, frames, silent_chunks,
                   max_chunks,
                   silence_chunks_needed, grace_chunks, lock, buf, cb, spawned, log,
                   events, session, ingested, dispatched, payloads, cancelled>>

(***************************************************************************)
(* AudioRecorder.stop, called by _finish_recording                         *)
(***************************************************************************)
\* if not self._recording and not self._frames: return None
StopCheck(t) ==
    /\ AtPc(t, "stop_check")
    /\ IF ~recording /\ frames = <<>>
       THEN log' = "Not recording" /\ Return(t)
       ELSE /\ Become(t, [t EXCEPT !.pc = "stop_flag",
                                      !.mark = dispatched > 0 /\ payloads # <<>>])
            /\ UNCHANGED log
    /\ UNCHANGED <<limit, cfg, hostVars, system, tmp_wavs, failed_audio, output,
                   recorderVars, streams, buf, cb, spawned, events,
                   session, ingested, dispatched, payloads, cancelled>>

\* self._recording = False
StopFlag(t) ==
    /\ AtPc(t, "stop_flag")
    /\ recording' = FALSE
    /\ Goto(t, "stop_stream")
    /\ UNCHANGED <<limit, cfg, hostVars, system, tmp_wavs, failed_audio, output,
                   speech_detected, frames, silent_chunks, max_chunks,
                   silence_chunks_needed, grace_chunks, stream, lock, streams, buf, cb,
                   spawned, log, events, session, ingested, dispatched,
                   payloads, cancelled>>

\* self._stream.stop(); self._stream.close(): returns once the stream's callback
\* has returned, and the stream calls back no more
CloseStream ==
    /\ stream # 0 /\ streams[stream] = "active" => cb[stream] = "idle"
    /\ streams' = IF stream # 0 THEN [streams EXCEPT ![stream] = "closed"] ELSE streams

StopStream(t) ==
    /\ AtPc(t, "stop_stream")
    /\ CloseStream
    /\ Goto(t, "stop_drain")
    /\ UNCHANGED <<limit, cfg, hostVars, system, tmp_wavs, failed_audio, output,
                   recorderVars, buf, cb, spawned, log, events,
                   session, ingested, dispatched, payloads, cancelled>>

\* stop() without `if not self._frames` under the lock
StopDrainUnchecked(t) ==
    /\ AtPc(t, "stop_drain")
    /\ lock = <<>>
    /\ payloads' = Append(payloads, Concatenate(frames))
    /\ tmp_wavs' = tmp_wavs + 1
    /\ log' = "Saved"
    /\ Goto(t, "transcribe")
    /\ UNCHANGED <<limit, cfg, hostVars, system, failed_audio, output,
                   recorderVars, streams, buf, cb, spawned, events,
                   session, ingested, dispatched, cancelled>>

\* with self._lock: if not self._frames: return None; np.concatenate(self._frames);
\* then the WAV file is written and its path returned
StopDrain(t) ==
    /\ AtPc(t, "stop_drain")
    /\ lock = <<>>
    /\ IF frames = <<>>
       THEN log' = "No audio captured" /\ Return(t) /\ UNCHANGED <<payloads, tmp_wavs>>
       ELSE /\ payloads' = Append(payloads, Concatenate(frames))
            /\ tmp_wavs' = tmp_wavs + 1
            /\ log' = "Saved"
            /\ Goto(t, "transcribe")
    /\ UNCHANGED <<limit, cfg, hostVars, system, failed_audio, output,
                   recorderVars, streams, buf, cb, spawned, events,
                   session, ingested, dispatched, cancelled>>

\* _finish_recording after stop() has returned a path, when transcribe returns:
\* the finally clause unlinks the file, and a text that is not empty is output
Transcribe(t) ==
    /\ AtPc(t, "transcribe")
    /\ \E text \in limit.texts :
           IF text = ""
           THEN UNCHANGED <<output, log>>
           ELSE output' = Append(output, text) /\ log' = "Transcribed"
    /\ tmp_wavs' = tmp_wavs - 1
    /\ Return(t)
    /\ UNCHANGED <<limit, cfg, hostVars, system, failed_audio, recorderVars, streams, buf, cb,
                   spawned, events, session, ingested, dispatched, payloads, cancelled>>

(***************************************************************************)
(* _on_cancel and AudioRecorder.cancel                                     *)
(***************************************************************************)
\* self._recording = False
CancelFlag(t) ==
    /\ AtPc(t, "cancel_flag")
    /\ recording' = FALSE
    /\ Become(t, [t EXCEPT !.pc = "cancel_stream", !.mark = TRUE])
    /\ UNCHANGED <<limit, cfg, hostVars, system, tmp_wavs, failed_audio, output,
                   speech_detected, frames, silent_chunks, max_chunks,
                   silence_chunks_needed, grace_chunks, stream, lock, streams, buf, cb,
                   spawned, log, events, session, ingested, dispatched,
                   payloads, cancelled>>

CancelStream(t) ==
    /\ AtPc(t, "cancel_stream")
    /\ CloseStream
    /\ Goto(t, "cancel_clear")
    /\ UNCHANGED <<limit, cfg, hostVars, system, tmp_wavs, failed_audio, output,
                   recorderVars, buf, cb, spawned, log, events,
                   session, ingested, dispatched, payloads, cancelled>>

\* cancel() without self._frames = []
CancelKeepsFrames(t) ==
    /\ AtPc(t, "cancel_clear")
    /\ log' = "Recording cancelled"
    /\ cancelled' = t.mark
    /\ Return(t)
    /\ UNCHANGED <<limit, cfg, hostVars, system, tmp_wavs, failed_audio, output,
                   recorderVars, streams, buf, cb, spawned, events,
                   session, ingested, dispatched, payloads>>

\* self._frames = []
CancelClear(t) ==
    /\ AtPc(t, "cancel_clear")
    /\ frames' = <<>>
    /\ ingested' = Pending
    /\ log' = "Recording cancelled"
    /\ cancelled' = t.mark
    /\ Return(t)
    /\ UNCHANGED <<limit, cfg, hostVars, system, tmp_wavs, failed_audio, output,
                   recording, speech_detected, silent_chunks, max_chunks,
                   silence_chunks_needed, grace_chunks, stream, lock, streams, buf, cb,
                   spawned, events, session, dispatched, payloads>>

ThreadStep ==
    \/ \E t \in ThreadsAt["start_check"] : StartCheck(t)
    \/ \E t \in ThreadsAt["start_reset"] : StartReset(t)
    \/ \E t \in ThreadsAt["start_detect"] : StartDetect(t)
    \/ \E t \in ThreadsAt["start_open"] : StartOpen(t)
    \/ \E t \in ThreadsAt["stop_check"] : StopCheck(t)
    \/ \E t \in ThreadsAt["stop_flag"] : StopFlag(t)
    \/ \E t \in ThreadsAt["stop_stream"] : StopStream(t)
    \/ \E t \in ThreadsAt["stop_drain"] : StopDrain(t)
    \/ \E t \in ThreadsAt["transcribe"] : Transcribe(t)
    \/ \E t \in ThreadsAt["cancel_flag"] : CancelFlag(t)
    \/ \E t \in ThreadsAt["cancel_stream"] : CancelStream(t)
    \/ \E t \in ThreadsAt["cancel_clear"] : CancelClear(t)

CallbackStep(s) == CallbackAppend(s) \/ CallbackBody(s)

Next ==
    \/ RecordHotkey
    \/ CancelHotkey
    \/ AutoStopThread
    \/ \E s \in Streams, c \in Chunks : Deliver(s, c)
    \/ \E s \in Streams : CallbackStep(s)
    \/ ThreadStep

Spec == Init /\ [][Next]_vars

\* some callback has begun and not returned
Busy ==
    \/ th # EmptyBag
    \/ \E s \in Streams : cb[s] # "idle"
    \/ spawned > 0

SeqNext ==
    \/ ~Busy /\ RecordHotkey
    \/ ~Busy /\ CancelHotkey
    \/ ~Busy /\ \E s \in Streams, c \in Chunks : Deliver(s, c)
    \/ AutoStopThread
    \/ \E s \in Streams : CallbackStep(s)
    \/ ThreadStep

SeqSpec == SeqInit /\ [][SeqNext]_vars

(***************************************************************************)
(* Scheduling.  The driver's callback threads always get to run; in        *)
(* DriverSpec nothing is assumed about the application's threads, which    *)
(* may stop for good at any statement.                                     *)
(***************************************************************************)
DriverInit ==
    /\ limit = [events |-> DriverEvents, chunks |-> {Silence, Speech}, texts |-> {Hello}]
    /\ cfg \in Configs
    /\ system = Defaults
    /\ Constructed

DriverSpec ==
    DriverInit /\ [][Next]_vars /\ \A s \in Streams : WF_vars(CallbackStep(s))

\* a statement of stop() or of cancel()
StopOrCancelStep ==
    \/ \E t \in ThreadsAt["stop_check"] : StopCheck(t)
    \/ \E t \in ThreadsAt["stop_flag"] : StopFlag(t)
    \/ \E t \in ThreadsAt["stop_stream"] : StopStream(t)
    \/ \E t \in ThreadsAt["stop_drain"] : StopDrain(t)
    \/ \E t \in ThreadsAt["cancel_flag"] : CancelFlag(t)
    \/ \E t \in ThreadsAt["cancel_stream"] : CancelStream(t)
    \/ \E t \in ThreadsAt["cancel_clear"] : CancelClear(t)

\* In FairSpec the threads inside stop() and cancel() get to run as well; start()
\* and what _finish_recording does with the file may still take for ever.
FairSpec ==
    /\ Init /\ [][Next]_vars
    /\ \A s \in Streams : WF_vars(CallbackStep(s))
    /\ WF_vars(StopOrCancelStep)

(***************************************************************************)
(* The same program on a machine whose capture device and whose disk can   *)
(* fail.                                                                   *)
(***************************************************************************)
FaultInit ==
    /\ limit = [events |-> FaultEvents, chunks |-> {Silence, Speech}, texts |-> {Hello}]
    /\ cfg \in Configs
    /\ system = Defaults
    /\ Constructed

\* sd.InputStream(...) or self._stream.start() raises: start() is left at line 65
\* or at line 72, and _start_recording logs the exception
StartOpenFails(t, at) ==
    /\ AtPc(t, "start_open")
    /\ IF at = "start"
       THEN LET s == CHOOSE x \in Streams : streams[x] = "none" /\
                         \A y \in Streams : streams[y] = "none" => x <= y
            IN  /\ streams' = [streams EXCEPT ![s] = "opened"]
                /\ stream' = s
       ELSE UNCHANGED <<stream, streams>>
    /\ log' = "Failed to start recording"
    /\ Return(t)
    /\ UNCHANGED <<limit, cfg, hostVars, system, tmp_wavs, failed_audio, output,
                   recording, speech_detected, frames, silent_chunks,
                   max_chunks, silence_chunks_needed, grace_chunks, lock, buf, cb,
                   spawned, events, session, ingested, dispatched, payloads,
                   cancelled>>

\* a stop() that takes the frames out of the recorder before it writes them
StopWriteFailsAfterSwap(t) ==
    /\ AtPc(t, "stop_drain")
    /\ lock = <<>>
    /\ frames # <<>>
    /\ frames' = <<>>
    /\ log' = "WAV write failed"
    /\ \E left \in {0, 1} : tmp_wavs' = tmp_wavs + left
    /\ Return(t)
    /\ UNCHANGED <<limit, cfg, hostVars, system, failed_audio, output,
                   recording, speech_detected, silent_chunks, max_chunks,
                   silence_chunks_needed, grace_chunks, stream, lock, streams, buf, cb,
                   spawned, events, session, ingested, dispatched, payloads,
                   cancelled>>

\* tempfile.NamedTemporaryFile or wave.open raises after np.concatenate: the
\* exception leaves stop() and _finish_recording, and ends the thread; the file
\* is left behind when it had been created
StopWriteFails(t) ==
    /\ AtPc(t, "stop_drain")
    /\ lock = <<>>
    /\ frames # <<>>
    /\ log' = "WAV write failed"
    /\ \E left \in {0, 1} : tmp_wavs' = tmp_wavs + left
    /\ Return(t)
    /\ UNCHANGED <<limit, cfg, hostVars, system, failed_audio, output,
                   recorderVars, streams, buf, cb, spawned, events,
                   session, ingested, dispatched, payloads, cancelled>>

FaultNext ==
    \/ Next
    \/ \E t \in ThreadsAt["start_open"], at \in {"open", "start"} : StartOpenFails(t, at)
    \/ \E t \in ThreadsAt["stop_drain"] : StopWriteFails(t)

FaultSpec == FaultInit /\ [][FaultNext]_vars

(***************************************************************************)
(* _finish_recording when the transcription fails, with save_failed_audio  *)
(* set or not                                                              *)
(***************************************************************************)
FinishInit ==
    /\ limit = [events |-> FinishEvents, chunks |-> {Silence, Speech}, texts |-> Texts]
    /\ cfg \in Configs
    /\ system \in [save_failed_audio : BOOLEAN]
    /\ Constructed

\* self.transcriber.transcribe(audio_path) raises: the except clause is entered
TranscribeRaises(t) ==
    /\ AtPc(t, "transcribe")
    /\ log' = "Transcription failed"
    /\ Goto(t, "except")
    /\ UNCHANGED <<limit, cfg, hostVars, system, tmp_wavs, failed_audio, output, recorderVars,
                   streams, buf, cb, spawned, events, session, ingested, dispatched,
                   payloads, cancelled>>

\* the finally clause moved before the copy: shutil.copy2 finds no file and raises
SaveFailedAudioAfterUnlink(t) ==
    /\ AtPc(t, "except")
    /\ tmp_wavs' = tmp_wavs - 1
    /\ Return(t)
    /\ UNCHANGED <<limit, cfg, hostVars, system, failed_audio, output, recorderVars, streams, buf,
                   cb, spawned, log, events, session, ingested, dispatched, payloads,
                   cancelled>>

\* the except clause: if save_failed_audio, shutil.copy2(audio_path, dest); return
SaveFailedAudio(t) ==
    /\ AtPc(t, "except")
    /\ IF system.save_failed_audio
       THEN failed_audio' = failed_audio + 1 /\ log' = "Saved failed audio"
       ELSE UNCHANGED <<failed_audio, log>>
    /\ Goto(t, "finally")
    /\ UNCHANGED <<limit, cfg, hostVars, system, tmp_wavs, output, recorderVars, streams, buf, cb,
                   spawned, events, session, ingested, dispatched, payloads, cancelled>>

\* finally: audio_path.unlink(missing_ok=True), and the return of the except clause
FinallyUnlink(t) ==
    /\ AtPc(t, "finally")
    /\ tmp_wavs' = tmp_wavs - 1
    /\ Return(t)
    /\ UNCHANGED <<limit, cfg, hostVars, system, failed_audio, output, recorderVars, streams, buf,
                   cb, spawned, log, events, session, ingested, dispatched, payloads,
                   cancelled>>

FinishNext ==
    \/ Next
    \/ \E t \in ThreadsAt["transcribe"] : TranscribeRaises(t)
    \/ \E t \in ThreadsAt["except"] : SaveFailedAudio(t)
    \/ \E t \in ThreadsAt["finally"] : FinallyUnlink(t)

FinishSpec == FinishInit /\ [][FinishNext]_vars

(***************************************************************************)
(* The recorder called directly, as the tests and the test command do: any *)
(* of start(), stop() and cancel() in any state, one call at a time.       *)
(***************************************************************************)
ApiInit ==
    /\ limit = [events |-> ApiEvents, chunks |-> {Silence, Speech}, texts |-> {Hello}]
    /\ cfg \in Configs
    /\ system = Defaults
    /\ Constructed

\* recorder.start(), recorder.stop() or recorder.cancel() is called
Call(op, pc) ==
    /\ events < limit.events
    /\ events' = events + 1
    /\ Run(op, pc)
    /\ UNCHANGED <<limit, cfg, hostVars, system, tmp_wavs, failed_audio, output,
                   recorderVars, streams, buf, cb, spawned, log,
                   session, ingested, dispatched, payloads, cancelled>>

ApiNext ==
    \/ ~Busy /\ Call("record", "start_check")
    \/ ~Busy /\ Call("record", "stop_check")
    \/ ~Busy /\ Call("cancel", "cancel_flag")
    \/ ~Busy /\ \E s \in Streams, c \in Chunks : Deliver(s, c)
    \/ AutoStopThread
    \/ \E s \in Streams : CallbackStep(s)
    \/ ThreadStep

ApiSpec == ApiInit /\ [][ApiNext]_vars

(***************************************************************************)
(* HotkeyManager: the listener thread calls _on_press and _on_release with *)
(* every key event, one at a time.                                         *)
(***************************************************************************)
\* _normalize: right-side modifiers collapse into the left-side key
Normalize(key) == IF key = "ctrl_r" THEN "ctrl_l" ELSE key

KeyInit ==
    /\ limit = [events |-> KeyEvents, chunks |-> {Silence, Speech}, texts |-> {Hello}]
    /\ cfg \in Configs
    /\ system = Defaults
    /\ Constructed

\* _on_press: add the key, then start a thread for the callback of the
\* combination that equals the pressed set
OnPress(key) ==
    /\ events < limit.events
    /\ events' = events + 1
    /\ pressed' = pressed \cup {Normalize(key)}
    /\ IF pressed' = Hotkeys.record
         THEN Run("record", IF recording THEN "stop_check" ELSE "start_check")
       ELSE IF pressed' = Hotkeys.cancel /\ recording
         THEN Run("cancel", "cancel_flag")
       ELSE UNCHANGED th
    /\ UNCHANGED <<limit, cfg, lock_file, procs, system, tmp_wavs, failed_audio, output,
                   recorderVars, streams, buf, cb, spawned, log,
                   session, ingested, dispatched, payloads, cancelled>>

\* _on_release: discard the key
OnRelease(key) ==
    /\ events < limit.events
    /\ events' = events + 1
    /\ pressed' = pressed \ {Normalize(key)}
    /\ UNCHANGED <<limit, cfg, lock_file, procs, system, tmp_wavs, failed_audio, output,
                   recorderVars, streams, buf, cb, th, spawned, log,
                   session, ingested, dispatched, payloads, cancelled>>

KeyNext ==
    \/ \E key \in Keys : OnPress(key)
    \/ \E key \in Keys : OnRelease(key)
    \/ AutoStopThread
    \/ \E s \in Streams, c \in Chunks : Deliver(s, c)
    \/ \E s \in Streams : CallbackStep(s)
    \/ ThreadStep

KeySpec == KeyInit /\ [][KeyNext]_vars

(***************************************************************************)
(* The `start` command: every process runs _cmd_start once.  The lock file *)
(* is shared by all of them; each statement that touches it is one step.   *)
(***************************************************************************)
LockInit ==
    /\ limit = [events |-> MaxProcs, chunks |-> {Silence, Speech}, texts |-> {Hello}]
    /\ cfg \in Configs
    /\ system = Defaults
    /\ Constructed

\* os.kill(pid, 0) succeeds: the process has started and has not ended
Alive(pid) == pid \in Pids /\ procs[pid].pc \notin {"unborn", "exited"}

\* the process moves to pc
Step(p, pc) == procs' = [procs EXCEPT ![p].pc = pc]

lockVars == <<limit, cfg, system, tmp_wavs, failed_audio, output, recorderVars,
              streams, buf, cb, th, spawned, log, events, session, ingested,
              dispatched, payloads, cancelled, pressed>>

\* a `start` command is launched and enters _acquire_lock
CmdStart(p) ==
    /\ procs[p].pc = "unborn"
    /\ Step(p, "exists")
    /\ UNCHANGED <<lockVars, lock_file>>

\* if LOCK_FILE.exists()
LockExists(p) ==
    /\ procs[p].pc = "exists"
    /\ Step(p, IF lock_file # 0 THEN "read" ELSE "write")
    /\ UNCHANGED <<lockVars, lock_file>>

\* old_pid = int(LOCK_FILE.read_text().strip()); a file that is gone by now
\* raises OSError, which the except clause passes over
LockRead(p) ==
    /\ procs[p].pc = "read"
    /\ IF lock_file # 0
       THEN procs' = [procs EXCEPT ![p] = [pc |-> "kill", old_pid |-> lock_file]]
       ELSE Step(p, "write")
    /\ UNCHANGED <<lockVars, lock_file>>

\* os.kill(old_pid, 0): return False, and _cmd_start returns; or OSError
LockKill(p) ==
    /\ procs[p].pc = "kill"
    /\ Step(p, IF Alive(procs[p].old_pid) THEN "exited" ELSE "write")
    /\ UNCHANGED <<lockVars, lock_file>>

\* LOCK_FILE.write_text(str(os.getpid())); return True
LockWrite(p) ==
    /\ procs[p].pc = "write"
    /\ lock_file' = p
    /\ Step(p, "setup")
    /\ UNCHANGED lockVars

\* ConfigManager, _setup_logging and VoicePrompt run before the try statement:
\* app.run() is entered, or an exception ends the process
AppSetup(p) ==
    /\ procs[p].pc = "setup"
    /\ \E raised \in BOOLEAN : Step(p, IF raised THEN "exited" ELSE "run")
    /\ UNCHANGED <<lockVars, lock_file>>

\* app.run() returns or raises; finally: _release_lock()
ReleaseLock(p) ==
    /\ procs[p].pc = "run"
    /\ lock_file' = 0
    /\ Step(p, "exited")
    /\ UNCHANGED lockVars

LockNext ==
    \E p \in Pids :
        \/ CmdStart(p)
        \/ LockExists(p)
        \/ LockRead(p)
        \/ LockKill(p)
        \/ LockWrite(p)
        \/ AppSetup(p)
        \/ ReleaseLock(p)

LockSpec == LockInit /\ [][LockNext]_vars

(***************************************************************************)
(* The properties.                                                         *)
(***************************************************************************)
SilenceMsg == "Silence after speech, auto-stopping"
GraceMsg   == "Grace period expired, no speech detected"
MaxMsg     == "Max recording duration reached"

\* some callback thread leaves the with block of _audio_callback in this step
CallbackReturns == \E s \in Streams : cb[s] = "locked" /\ cb'[s] = "idle"

\* C1: within one session on_auto_stop is dispatched at most once, and each
\* dispatch is made by an _audio_callback that found the silence, grace or
\* max-duration condition true, never by stop() or cancel().
DispatchedAtMostOnce ==
    [][dispatched' # dispatched =>
          \/ dispatched' = 0 /\ session' = session + 1
          \/ /\ dispatched' = 1
             /\ CallbackReturns
             /\ log' \in {SilenceMsg, GraceMsg, MaxMsg}
             /\ \/ SilenceEnabled /\ (SilenceStop \/ GraceStop)
                \/ MaxStop]_vars

\* C2: at most one stop() of a session returns a file, so that transcribe()
\* runs at most once for the session, also when the record hotkey's
\* _finish_recording runs together with the one an automatic stop started.
OnePayloadPerSession == Len(payloads) <= 1

\* C3: the audio stop() returns is the samples of every chunk _audio_callback
\* accepted, concatenated in the order the callback was invoked.
PayloadIsIngested ==
    [][payloads' # payloads /\ payloads' # <<>> =>
          /\ Pending = <<>>
          /\ payloads'[Len(payloads')] = ChunksOf(ingested)]_vars

\* C4: once cancel() has returned, and until a start() begins a session, the
\* recorder is not recording and holds no frame, so that a following stop()
\* returns None at its first check.
CancelDiscards == cancelled => ~recording /\ frames = <<>>

\* C5: once a session has auto-stopped and a stop() has returned its file, a
\* stop() entered later, with no start() in between, returns None.
DrainedOnce ==
    [][session' = session /\ At(th', "stop_drain", TRUE) < At(th, "stop_drain", TRUE) =>
          payloads' = payloads /\ BagCardinality(th') < BagCardinality(th)]_vars

\* C6: start() entered while the recorder is recording returns at its first
\* check: frames, the speech flag, the silent run, the chunk thresholds and
\* the stream stay as they are and no stream is opened.
StartWhileRecordingIsNoOp ==
    [][recording /\ At(th', "start_check", FALSE) < At(th, "start_check", FALSE) =>
          /\ BagCardinality(th') < BagCardinality(th)
          /\ UNCHANGED <<recorderVars, streams>>]_vars

\* a start() refused while a recording with a captured chunk is under way
StartRefused == log = "Already recording" /\ recording /\ frames # <<>> /\ stream # 0

\* C7: with silence_threshold = 0 the recorder stops recording only in stop(),
\* in cancel() or in a callback that found the max-duration condition true;
\* no callback stops it or dispatches on_auto_stop for silence or grace.
ThresholdZeroStopsOnMaxOnly ==
    [][cfg.silence_threshold[1] = 0 =>
          /\ recording /\ ~recording' =>
                \/ \E pc \in {"stop_flag", "cancel_flag"} :
                       At(th', pc, FALSE) + At(th', pc, TRUE)
                           < At(th, pc, FALSE) + At(th, pc, TRUE)
                \/ CallbackReturns /\ MaxStop /\ log' = MaxMsg
          /\ dispatched' > dispatched => MaxStop /\ log' = MaxMsg]_vars

\* threshold 0: the recorder went past the silence and grace thresholds, on chunks
\* that are silent under any threshold above 0, and stopped for max duration
ZeroThresholdReachedMax ==
    /\ cfg.silence_threshold[1] = 0
    /\ ~recording /\ log = MaxMsg
    /\ Len(frames) = max_chunks
    /\ max_chunks > grace_chunks /\ grace_chunks > silence_chunks_needed
    /\ \A i \in 1 .. Len(frames) : frames[i].data \in {Silence, Clipped}

\* C8: with silence_duration = 0.3, once speech has been detected the recorder
\* still records after a callback that leaves the silent run below 3, and
\* stops, for silence, in the callback that makes the silent run 3.
SilenceStopsOnThirdChunk ==
    [][cfg.silence_duration = <<3, 10>> /\ SilenceEnabled /\ CallbackReturns
         /\ recording /\ speech_detected' =>
          /\ silent_chunks' < 3 => recording'
          /\ silent_chunks' = 3 => ~recording' /\ log' = SilenceMsg]_vars

\* the run of callbacks C9 is about: threshold enabled, recording, no speech so far
NoSpeechCallback == SilenceEnabled /\ CallbackReturns /\ recording /\ ~speech_detected'

\* grace 0.5 s gives 5 chunks, grace 10 s gives 100
GraceExamples ==
    /\ cfg.grace_period = <<5, 10>> => grace_chunks = 5
    /\ cfg.grace_period = <<10, 1>> => grace_chunks = 100

CeilChunks(d) == (10 * d[1] + d[2] - 1) \div d[2]

\* C10: the thresholds start() derives are the ceilings of the durations
\* divided by 0.1, so none covers less than its duration: checked once a
\* start() has opened its stream.
ThresholdsAreCeilings ==
    stream # 0 =>
        /\ silence_chunks_needed = CeilChunks(cfg.silence_duration)
        /\ grace_chunks = CeilChunks(cfg.grace_period)
        /\ max_chunks = CeilChunks(cfg.max_duration)

\* the state of the recording session, read off the recorder's fields
SessionState ==
    IF recording THEN "Active"
    ELSE IF session = 0 THEN "Idle"
    ELSE IF cancelled THEN "Cancelled"
    ELSE "Stopped"

CallbackRuns == \E s \in Streams : cb[s] # "idle" /\ cb'[s] # cb[s]

\* C12: an _audio_callback that runs while the recorder is not recording, also
\* one whose invocation overlaps stop() or cancel(), leaves _frames,
\* _speech_detected, _silent_chunks and _recording as they are and starts no
\* on_auto_stop thread.
StragglerIsNoOp ==
    [][~recording /\ (CallbackRuns \/ events' # events) =>
          /\ UNCHANGED <<recording, frames, speech_detected, silent_chunks>>
          /\ spawned' = spawned]_vars

\* start() is left by an exception of the stream in this step
StartRaises ==
    /\ log' = "Failed to start recording"
    /\ \E t \in ThreadsAt["start_open"] : CopiesIn(t, th') < CopiesIn(t, th)

\* C13: when sd.InputStream(...) or its start() raises inside start(), the
\* recorder is left not recording, so that the next record hotkey starts a
\* recording.
FailedStartLeavesIdle == [][StartRaises => ~recording']_vars

\* a thread at pc takes its step
Leaves(pc) == \E t \in ThreadsAt[pc] : CopiesIn(t, th') < CopiesIn(t, th)

\* a thread returns from its callback
Returned == BagCardinality(th') < BagCardinality(th)

\* a thread at pc, marked or not, takes a step
Exits(pc) == At(th', pc, TRUE) + At(th', pc, FALSE) < At(th, pc, TRUE) + At(th, pc, FALSE)

\* C14: a stop() on a recorder that holds no frame returns None and hands out
\* no audio: at its first check, changing nothing, when the recorder is not
\* recording; after closing the stream when it was recording, and then the
\* recorder is not recording.
NoFramesNoData ==
    [][frames = <<>> =>
          /\ Leaves("stop_check") /\ ~recording =>
                 /\ Returned /\ log' = "Not recording"
                 /\ UNCHANGED <<recorderVars, streams, payloads>>
          /\ Leaves("stop_drain") =>
                 /\ Returned /\ log' = "No audio captured"
                 /\ ~recording' /\ frames' = <<>> /\ payloads' = payloads]_vars

\* a recording was stopped before its first chunk
StoppedBeforeFirstChunk ==
    /\ log = "No audio captured"
    /\ session = 1 /\ ingested = <<>> /\ payloads = <<>>
    /\ ~recording /\ stream # 0 /\ streams[stream] = "closed"

\* a thread inside stop() or cancel() takes a step
StopOrCancelSteps ==
    \E pc \in (StopPcs \ {"transcribe"}) \cup CancelPcs : Leaves(pc)

\* C15: stop() and cancel() read and write _frames, _speech_detected,
\* _silent_chunks and _recording only while they hold _lock, so never while an
\* _audio_callback holds it: no step of stop() or cancel() changes one of them
\* while a callback is inside its with block.
AccessUnderLock ==
    [][lock # <<>> /\ StopOrCancelSteps =>
          UNCHANGED <<recording, frames, speech_detected, silent_chunks>>]_vars

\* a cancel() has set _recording = False and no start() has begun a session since
CancelCommitted ==
    cancelled \/ At(th, "cancel_stream", TRUE) + At(th, "cancel_clear", TRUE) > 0

\* C16: of a cancel() and an _audio_callback that race, one wins: once the
\* cancel() has set _recording = False, a callback in flight appends nothing
\* and starts no on_auto_stop thread; and once the cancel() has returned, no
\* stop() hands out audio, whichever of the two came first.
CancelOrAutoStop ==
    [][/\ CancelCommitted /\ CallbackRuns => frames' = frames /\ spawned' = spawned
       /\ cancelled /\ cancelled' => payloads' = payloads]_vars

InStopOrCancel ==
    \E pc \in (StopPcs \ {"transcribe"}) \cup CancelPcs : \E t \in ThreadsAt[pc] : AtPc(t, pc)

\* a stop() or cancel() is closing the stream, whose callback thread waits for
\* the lock that another thread holds
CloseWaitsForLockWaiter ==
    /\ \E pc \in {"stop_stream", "cancel_stream"} : \E t \in ThreadsAt[pc] : AtPc(t, pc)
    /\ stream # 0 /\ streams[stream] = "active"
    /\ cb[stream] = "waiting" /\ lock # <<>>

\* every stop() and every cancel() that was entered is left
StopAndCancelEventuallyReturn == InStopOrCancel ~> ~InStopOrCancel

\* C18: with the threads scheduled fairly every stop() and every cancel()
\* returns, and while it closes the stream it never waits for a callback that
\* itself waits for the lock.
StopAndCancelReturn ==
    /\ StopAndCancelEventuallyReturn
    /\ [](~CloseWaitsForLockWaiter)

\* the streams that start() has opened and that nothing has closed
OpenStreams == {s \in Streams : streams[s] \in {"opened", "active"}}

\* C19: at most one capture stream is open at any time: no start() opens a
\* stream while an earlier one is still open.
AtMostOneStreamOpen == Cardinality(OpenStreams) <= 1

\* C20: when the WAV file cannot be written, the exception leaves stop(), no
\* audio is handed out, and _frames is what it was: once the call is over the
\* recorder still holds the frames, so that the failure alone drops no audio.
WriteFailureKeepsFrames ==
    /\ [][Exits("stop_drain") /\ log' = "WAV write failed" =>
             /\ Returned
             /\ frames' = frames /\ frames' # <<>>
             /\ payloads' = payloads]_vars
    /\ [](log = "WAV write failed" /\ th = EmptyBag => frames # <<>>)

\* a stop() has failed to write the file of a recording of two chunks
WriteFailed ==
    /\ log = "WAV write failed"
    /\ th = EmptyBag /\ payloads = <<>>
    /\ ~recording /\ Len(frames) = 2

\* a thread inside cancel() takes a step
CancelSteps == \E pc \in CancelPcs : Leaves(pc)

\* C21: cancel() can be called in every state: it returns with the recorder
\* not recording and without frames, and a cancel() on a recorder that a
\* cancel() has left, with no start() in between, changes nothing.
CancelIdempotent ==
    [][/\ Leaves("cancel_clear") => Returned /\ ~recording' /\ frames' = <<>>
       /\ cancelled /\ CancelSteps => UNCHANGED <<recorderVars, streams>>]_vars

\* a second cancel() in a row is at its last statement
CancelledTwice ==
    /\ cancelled /\ session = 1
    /\ \E t \in ThreadsAt["cancel_clear"] : AtPc(t, "cancel_clear")
    /\ stream # 0 /\ streams[stream] = "closed"

\* the sum of the absolute values of the samples of c, as integers
RECURSIVE SumMagnitudes(_)
SumMagnitudes(c) ==
    IF c = <<>> THEN 0
    ELSE (IF Head(c) < 0 THEN -Head(c) ELSE Head(c)) + SumMagnitudes(Tail(c))

\* mean(|sample|) / 32768 >= thr[1]/thr[2]
MeanMagnitudeReaches(c, thr) == SumMagnitudes(c) * thr[2] >= thr[1] * FullScale * Len(c)

\* C22: with a threshold > 0 a chunk counts as speech exactly when the mean of
\* the absolute values of its samples, divided by 32768, is at least the
\* threshold; a chunk of samples at -32768 is speech.
SpeechIffMeanReachesThreshold ==
    [][\A s \in Streams :
          SilenceEnabled /\ cb[s] = "locked" /\ cb'[s] = "idle" =>
              (speech_detected' /\ silent_chunks' = 0 <=>
                   MeanMagnitudeReaches(buf[s], cfg.silence_threshold))]_vars

\* C23: one _audio_callback looks at the stop conditions in the order
\* silence after speech, grace, max duration and acts on the first that is
\* true: when several are true on the same chunk the recorder stops once, with
\* the message of the first, and one on_auto_stop thread is started.
FirstStopConditionWins ==
    [][CallbackReturns =>
          LET silence == SilenceEnabled /\ SilenceStop
              grace == SilenceEnabled /\ GraceStop
          IN  IF silence \/ grace \/ MaxStop
              THEN /\ ~recording'
                   /\ spawned' = spawned + 1 /\ dispatched' = dispatched + 1
                   /\ log' = IF silence THEN SilenceMsg
                             ELSE IF grace THEN GraceMsg ELSE MaxMsg
              ELSE UNCHANGED <<recording, spawned, dispatched>>]_vars

\* a chunk made both the silence and the max-duration condition true
SilenceAndMaxTogether ==
    /\ log = SilenceMsg /\ ~recording /\ dispatched = 1 /\ spawned = 1
    /\ speech_detected /\ silent_chunks >= silence_chunks_needed
    /\ Len(frames) = max_chunks

\* C24: max duration is a ceiling in every configuration: the callback that
\* finds max_chunks frames or more stops the recording and starts an
\* on_auto_stop thread, with silence detection on or off and with or without
\* speech; between callbacks a recorder that is recording holds fewer than
\* max_chunks frames.
MaxDurationIsCeiling ==
    /\ [][CallbackReturns /\ Len(frames) >= max_chunks =>
              ~recording' /\ spawned' = spawned + 1 /\ dispatched' = dispatched + 1]_vars
    /\ [](~Busy /\ recording => Len(frames) < max_chunks)

\* the max duration stopped a recording in which speech had been detected
MaxReachedAfterSpeech ==
    /\ ~recording /\ log = MaxMsg /\ dispatched = 1
    /\ SilenceEnabled /\ speech_detected
    /\ Len(frames) = max_chunks

\* the chunk of entry i of ingested has been appended and classified: its
\* callback is past the silence logic
Classed(i) ==
    /\ ingested[i].appended
    /\ cb[ingested[i].stream] = "locked" =>
           \E j \in i + 1 .. Len(ingested) :
               ingested[j].appended /\ ingested[j].stream = ingested[i].stream

\* a chunk of the session has been classified as speech
SpeechClassified ==
    \E i \in 1 .. Len(ingested) :
        Classed(i) /\ ~Classified[ingested[i].chunk, cfg.silence_threshold]

\* C25: once a chunk of the session has been classified as speech,
\* _speech_detected is True for the rest of the session, and no grace stop
\* fires in a session in which a chunk was classified as speech.
SpeechDetectedStays ==
    /\ [](SilenceEnabled /\ SpeechClassified => speech_detected)
    /\ [][spawned' > spawned /\ log' = GraceMsg => ~SpeechClassified']_vars

\* silent chunks followed speech and the recording went on, past the grace period
SilentAfterSpeech ==
    /\ recording /\ speech_detected /\ silent_chunks >= 2
    /\ Len(frames) > grace_chunks

\* the silent chunks in a row at the end of the first n chunks of the session,
\* counting the chunks that have been classified
RECURSIVE SilentRunUpTo(_)
SilentRunUpTo(n) ==
    IF n = 0 THEN 0
    ELSE IF ~Classed(n) THEN SilentRunUpTo(n - 1)
    ELSE IF Classified[ingested[n].chunk, cfg.silence_threshold]
         THEN 1 + SilentRunUpTo(n - 1)
         ELSE 0

SilentRun == SilentRunUpTo(Len(ingested))

\* C26: with silence detection enabled, while the recorder is recording and
\* once start() has reset the detection, _silent_chunks is the number of silent
\* chunks in a row at the end of the chunks classified in the session, 0 after
\* a speech chunk; and the silence stop fires only on a run of
\* silence_chunks_needed silent chunks.
SilentChunksIsTheSilentRun ==
    /\ [](/\ SilenceEnabled /\ recording
          /\ \A t \in ThreadsAt["start_detect"] : ~AtPc(t, "start_detect")
          => silent_chunks = SilentRun)
    /\ [][spawned' > spawned /\ log' = SilenceMsg =>
              SilentRun' >= silence_chunks_needed]_vars

\* a silent chunk, a speech chunk, a silent chunk: as many silent chunks as the
\* stop needs, not in a row, and the recording goes on
SilentChunksApart ==
    /\ recording /\ speech_detected /\ silence_chunks_needed = 2
    /\ Len(frames) = 3 /\ silent_chunks = 1
    /\ Classified[frames[1].data, cfg.silence_threshold]
    /\ ~Classified[frames[2].data, cfg.silence_threshold]
    /\ Classified[frames[3].data, cfg.silence_threshold]

\* the _finish_recording calls that hold the path of a file stop() has written
HoldingPath ==
    LET at(pc) == At(th, pc, TRUE) + At(th, pc, FALSE)
    IN  at("transcribe") + at("except") + at("finally")

\* C27: when transcribe raises, the file is copied to failed_audio_dir if
\* save_failed_audio is set, while it is still in temp_dir, and nothing is
\* output; whatever transcribe does, _finish_recording unlinks its file once,
\* at its end and not before, and a text is output only when transcribe
\* returned it and it is not empty.
FinishRecordingOutcomes ==
    /\ [][Exits("except") =>
              /\ failed_audio' = failed_audio + (IF system.save_failed_audio THEN 1 ELSE 0)
              /\ tmp_wavs' = tmp_wavs /\ tmp_wavs > 0
              /\ ~Returned]_vars
    /\ [][Exits("finally") => Returned /\ tmp_wavs' = tmp_wavs - 1]_vars
    /\ [][Exits("transcribe") =>
              \/ Returned /\ tmp_wavs' = tmp_wavs - 1
              \/ ~Returned /\ tmp_wavs' = tmp_wavs /\ log' = "Transcription failed"]_vars
    /\ [][output' # output =>
              /\ Exits("transcribe") /\ Returned
              /\ \E text \in Texts \ {""} : output' = Append(output, text)]_vars
    /\ [][failed_audio' # failed_audio => Exits("except")]_vars
    /\ [](tmp_wavs = HoldingPath)

\* a transcription failed and its audio was saved: one copy, no temporary file
\* left, nothing output
FailedAudioSaved ==
    /\ system.save_failed_audio /\ log = "Saved failed audio"
    /\ th = EmptyBag /\ failed_audio = 1 /\ tmp_wavs = 0 /\ output = <<>>

\* the listener dispatches a hotkey
HotkeyDispatched == events' = events + 1 /\ th' # th

AutoStoppedUndrained == ~recording /\ dispatched > 0 /\ payloads = <<>> /\ frames # <<>>

\* C29: from the automatic stop until a stop() has taken the frames, only
\* cancel() takes frames away: every other step leaves in _frames the frames
\* that were there, in their order; a record hotkey in that window does not
\* make start() discard them.
AutoStoppedFramesKept ==
    [][AutoStoppedUndrained /\ ~Exits("cancel_clear") =>
          /\ Len(frames') >= Len(frames)
          /\ SubSeq(frames', 1, Len(frames)) = frames]_vars

\* an on_auto_stop thread has taken the frames of the recording that stopped
\* by itself
AutoStoppedDrained ==
    /\ ~recording /\ dispatched = 1 /\ Len(payloads) = 1 /\ session = 1
    /\ Concatenate(frames) = payloads[1]
    /\ At(th, "transcribe", FALSE) = 1

\* C30: every stream start() has opened and that is not closed yet is the one
\* self._stream refers to, the stream the next stop() or cancel() closes: no
\* stream is left open out of the recorder's reach.
OpenStreamIsReferenced == \A s \in OpenStreams : s = stream

\* the stream of a recording that stopped by itself has been closed by the
\* stop() of its on_auto_stop thread
ClosedAfterAutoStop ==
    /\ dispatched = 1 /\ session = 1 /\ th = EmptyBag /\ spawned = 0
    /\ stream = 1 /\ streams[1] = "closed" /\ OpenStreams = {}

\* the streams that start() has ever opened: the producers of chunks
Producers == {s \in Streams : streams[s] # "none"}

\* C31: an _audio_callback that returns with the recorder still recording and
\* silence detection enabled leaves fewer than max_chunks frames, a silent run
\* below silence_chunks_needed if speech was detected, and fewer than
\* grace_chunks frames if it was not; and with one stream as the only
\* producer _frames never holds more than max_chunks frames.
StillRecordingBelowThresholds ==
    /\ [][CallbackReturns /\ recording' /\ SilenceEnabled =>
              /\ Len(frames') < max_chunks
              /\ speech_detected' => silent_chunks' < silence_chunks_needed
              /\ ~speech_detected' => Len(frames') < grace_chunks]_vars
    /\ [](Cardinality(Producers) <= 1 /\ stream # 0 => Len(frames) <= max_chunks)

\* a callback has returned one silent chunk short of the silence stop
OneShortOfSilenceStop ==
    /\ recording /\ SilenceEnabled /\ speech_detected
    /\ silent_chunks >= 1 /\ silent_chunks = silence_chunks_needed - 1
    /\ \A s \in Streams : cb[s] = "idle"
    /\ Len(frames) < max_chunks

\* C32: while the keys of a registered combination stay held, a further press
\* event for a key that is already held starts no callback thread: a callback
\* is dispatched only by a press that adds a key to the pressed set, once for
\* each activation of the combination.
OneDispatchPerActivation == [][HotkeyDispatched => pressed' # pressed]_vars

\* the processes that have passed _acquire_lock and have not ended
Instances == {p \in Pids : procs[p].pc \in {"setup", "run"}}

\* process p leaves os.kill in this step
Probed(p) == procs[p].pc = "kill" /\ procs'[p].pc # "kill"

\* C33: at most one process is past _acquire_lock at a time; a `start` that
\* finds the lock file naming a live process ends without running the
\* application and leaves the lock file as it is; and the lock file is
\* removed only by the process whose pid is in it, when it ends.
OneDaemonInstance ==
    /\ [](Cardinality(Instances) <= 1)
    /\ [][\A p \in Pids : Probed(p) /\ Alive(procs[p].old_pid) =>
                procs'[p].pc = "exited" /\ lock_file' = lock_file]_vars
    /\ [][lock_file # 0 /\ lock_file' = 0 =>
                procs[lock_file].pc = "run" /\ procs'[lock_file].pc = "exited"]_vars

====
